---- MODULE Spec2Model ----
(***************************************************************************)
(* ntool: ping and traceroute over a raw ICMP socket.                      *)
(*                                                                         *)
(* The process is modelled as one sequential program (main -> ping or      *)
(* traceroute) whose position is pc, plus one asynchronous event, the      *)
(* delivery of SIGINT, which may happen between any two steps.  The        *)
(* network is the environment: every receive draws its outcome from a      *)
(* small set of datagrams, a timeout or a socket error.                    *)
(***************************************************************************)
EXTENDS Integers, Sequences, FiniteSets, TLC

(***************************************************************************)
(* Bounds of the model (not program constants).                            *)
(***************************************************************************)
MaxCount == 2

MaxHopsArg == 2

MaxQueriesArg == 2

\* longest buffer handed to calculate_checksum on its own
MaxBufLen == 4

\* largest number of whole seconds between the timestamps given to rtt()
MaxSec == 2

(***************************************************************************)
(* Program and platform constants.                                         *)
(***************************************************************************)
ICMP_ECHOREPLY == 0

ICMP_UNREACH == 3

ICMP_ECHO == 8

ICMP_TIMXCEED == 11

SIGINT == 2

SIGFPE == 8

SIGSEGV == 11

EXIT_SUCCESS == 0

EXIT_FAILURE == 1

DEFAULT_PINGS_COUNT == 4

UNREACH_TABLE_SIZE == 16

UINT16_MOD == 65536

\* exit status of a process killed by signal s, as the parent shell sees it
KilledBy(s) == 128 + s

\* exit_code while the process is still running
Running == -1

(***************************************************************************)
(* Environment value sets.                                                 *)
(***************************************************************************)
\* getpid() of this process, and the identifier of some other sender
Pid == 7

OtherId == 9

\* round-trip times (end_time - begin_time) the clock can measure, in ms
RttVals == {1, 4}

\* TTL values found in the IP header of a received datagram
IpTtlVals == {64}

\* sub-codes a destination-unreachable message may carry (one is outside
\* the 16-entry description table)
UnreachCodes == {0, 15, 16}

VARIABLES
    pc,                  \* position of the main flow of control
    exit_code,           \* Running, or the status the process ended with
    handler,             \* disposition of SIGINT: "default", "ping", "tr"
    sock,                \* raw socket: "none", "open", "closed"
    closes,              \* number of close(sockfd) calls made
    out,                 \* lines printed on stdout, in order
    cmd,                 \* command selected by main
    arg_n,               \* count given on the command line (as passed to ping)
    arg_h,               \* max hops as passed to traceroute
    arg_q,               \* max queries as passed to traceroute
    n,                   \* ping: number of probes to send
    ping_count,          \* ping: loop counter / last sequence number
    transmitted_packets, \* ping: static counter
    received_packets,    \* ping: static counter
    rtt,                 \* ping: vector of RTT samples
    ttl,                 \* ping: TTL of the last received datagram
    reply,               \* ping: last decoded ICMP header
    elapsed,             \* ping: end_time - begin_time of the last receive
    events,              \* history: outcome of every receive of the ping run
    sent,                \* history: <<id, sequence, type>> of every probe sent
    interrupted,         \* history: an external SIGINT has been delivered
    summaries,           \* history: number of times summary() was entered
    request,             \* ping: ICMP header of the probe being sent
    max_hops,            \* traceroute: static max_hops
    max_queries,         \* traceroute: static max_queries
    hop_ttl,             \* traceroute: loop variable ttl (std::uint8_t)
    seq,                 \* traceroute: loop variable seq (std::uint16_t)
    reached,             \* traceroute: destination reached
    router_addr,         \* traceroute: source address of the last reply
    prev_addr,           \* traceroute: source address of the reply before
    tr_line,             \* traceroute: tokens printed on the current line
    lines_done,          \* traceroute: number of lines ended with '\n'
    probes,              \* history: <<IP_TTL, sequence>> of the probes sent at
                         \* the current hop
    sock_ttl,            \* traceroute: IP_TTL option of the socket (0: not set)
    probed,              \* history: the TTLs probes were sent with
    hop_events,          \* history: what each query of the current hop
                         \* received (source address, or TIMEOUT)
    prev_hop_addr,       \* history: source of the last reply of the hop before
                         \* (0: that hop got none)
    seen,                \* history: sources of the replies of earlier hops,
                         \* kept while clean
    clean,               \* history: so far every probe was answered, each hop
                         \* by one address, no address at two hops
    late,                \* network: <<IP_TTL, seq>> of a probe whose wait timed
                         \* out and whose reply may still arrive
    answered,            \* network: the probe the datagram read last was a
                         \* reply to
    opts,                \* main: the options -m / -q found on the command line
    sleeps,              \* history: number of inter-probe sleeps of ping
    wire,                \* codec: bytes of the message built by the encoder
    buffer,              \* codec: recv()'s static packet[ICMP_PACKET_SIZE]
    dgram,               \* codec: the datagram the network delivered
                         \* ([ihl, ttl, len])
    running_sum,         \* checksum: the 32-bit running sum (sum)
    cksum,               \* checksum: the folded, complemented result
    begin_time,          \* traceroute: timeval taken after sendto()
    end_time,            \* traceroute: timeval taken after recvfrom()
    hop_rtt              \* traceroute: what rtt(begin_time, end_time) returned

\* the variables of the packet codec and of the checksum
codecVars == <<wire, buffer, dgram, running_sum, cksum>>

\* the timestamps of a traceroute query and the time computed from them
clockVars == <<begin_time, end_time, hop_rtt>>

pingVars == <<n, ping_count, transmitted_packets, received_packets, rtt, ttl,
              reply, elapsed, events, sent, request>>

trVars == <<max_hops, max_queries, hop_ttl, seq, reached, router_addr,
            prev_addr, tr_line, lines_done, probes, sock_ttl, probed,
            hop_events, prev_hop_addr, seen, clean, late, answered>>

\* the history of the hops of a traceroute run
trHist == <<probed, hop_events, prev_hop_addr, seen, clean, late, answered>>

vars == <<pc, exit_code, handler, sock, closes, out, cmd, arg_n, arg_h, arg_q,
          n, ping_count,
          transmitted_packets, received_packets, rtt, ttl, reply, elapsed,
          events, sent, interrupted, summaries, request, max_hops, max_queries,
          hop_ttl, seq, reached, router_addr, prev_addr, tr_line, lines_done,
          probes, sock_ttl, probed, hop_events, prev_hop_addr, seen, clean,
          late, answered,
          opts, sleeps, wire, buffer, dgram, running_sum, cksum,
          begin_time, end_time, hop_rtt>>

(***************************************************************************)
(* Output lines: <<kind, a, b, c>>.                                        *)
(***************************************************************************)
Line(kind, a, b, c) == <<kind, a, b, c>>

HasLine(o, kind) == \E i \in 1..Len(o) : o[i][1] = kind

CountLines(o, kind) == Cardinality({i \in 1..Len(o) : o[i][1] = kind})

(***************************************************************************)
(* utils::mean / utils::mdev / min_element / max_element over the samples. *)
(* Rational results are kept as <<numerator, denominator>>.                *)
(***************************************************************************)
RECURSIVE SeqSum(_)
SeqSum(s) == IF s = <<>> THEN 0 ELSE Head(s) + SeqSum(Tail(s))

RECURSIVE SeqMin(_)
SeqMin(s) ==
    IF Len(s) = 1 THEN s[1]
    ELSE LET m == SeqMin(Tail(s)) IN IF s[1] < m THEN s[1] ELSE m

RECURSIVE SeqMax(_)
SeqMax(s) ==
    IF Len(s) = 1 THEN s[1]
    ELSE LET m == SeqMax(Tail(s)) IN IF m < s[1] THEN s[1] ELSE m

Abs(x) == IF x < 0 THEN -x ELSE x

mean(s) == IF s = <<>> THEN <<0, 1>> ELSE <<SeqSum(s), Len(s)>>

RECURSIVE SumAbsDev(_, _, _)
SumAbsDev(s, sum, len) ==
    IF s = <<>> THEN 0
    ELSE Abs(len * Head(s) - sum) + SumAbsDev(Tail(s), sum, len)

\* variant: the deviations are summed with their sign
mdev_signed(s) ==
    IF s = <<>> THEN <<0, 1>>
    ELSE <<SeqSum([i \in 1..Len(s) |-> Len(s) * s[i] - SeqSum(s)]),
           Len(s) * Len(s)>>

mdev(s) ==
    IF s = <<>> THEN <<0, 1>>
    ELSE <<SumAbsDev(s, SeqSum(s), Len(s)), Len(s) * Len(s)>>

(***************************************************************************)
(* summary(): the loss percentage and the statistics lines.                *)
(***************************************************************************)
\* received_packets / transmitted_packets on integer operands
Ratio(rx, tx) == rx \div tx

\* the values an integer division by zero can leave in ratio when the
\* hardware does not trap
DivZeroValues == {0}

\* variant: the loss is taken to be the share received
PacketLoss_received(ratio) == ratio * 100

\* std::ceil(100.0 - (ratio * 100.0)), ratio being an integer
PacketLoss(ratio) == 100 - (ratio * 100)

\* rtt.empty()
NoSamples(samples) == samples = <<>>

\* variant: summary() without the rtt.empty() check
summary_unguarded(tx, rx, samples) ==
    LET ratios == IF tx = 0 THEN DivZeroValues ELSE {Ratio(rx, tx)}
    IN  {[lines |-> <<Line("stats", tx, rx, PacketLoss(r)),
                      Line("rttline", 0, 0, <<mean(samples), mdev(samples)>>)>>,
          result |-> "ok"] : r \in ratios}
        \cup (IF tx = 0 THEN {[lines |-> <<>>, result |-> "trap"]} ELSE {})

\* Outcomes of one call of summary(): the lines it prints and how it ends:
\*   "ok"        it returned,
\*   "nosamples" it ended in utils::error (exit(EXIT_FAILURE)),
\*   "trap"      the division by zero trapped (SIGFPE).
summary(tx, rx, samples) ==
    LET ratios == IF tx = 0 THEN DivZeroValues ELSE {Ratio(rx, tx)}
        stats(r) == Line("stats", tx, rx, PacketLoss(r))
        finish(r) ==
            IF NoSamples(samples)
            THEN [lines |-> <<stats(r), Line("error", "nosamples", 0, 0)>>,
                  result |-> "nosamples"]
            ELSE [lines |-> <<stats(r),
                              Line("rttline", SeqMin(samples), SeqMax(samples),
                                   <<mean(samples), mdev(samples)>>)>>,
                  result |-> "ok"]
    IN  {finish(r) : r \in ratios}
        \cup (IF tx = 0 THEN {[lines |-> <<>>, result |-> "trap"]} ELSE {})

(***************************************************************************)
(* utils::error(msg): print the message and exit(EXIT_FAILURE).            *)
(***************************************************************************)
error(o, msg) ==
    /\ out' = Append(o, Line("error", msg, 0, 0))
    /\ pc' = "exited"
    /\ exit_code' = EXIT_FAILURE

(***************************************************************************)
(* ping's sigint_handler(sig): summary(); close(sockfd); std::exit(sig).   *)
(* o is what has been printed so far.  Sets pc, exit_code, out, sock,      *)
(* closes and summaries.                                                   *)
(***************************************************************************)
HandlerExitCode(sig) == sig

sigint_handler(o, sig) ==
    /\ summaries' = summaries + 1
    /\ \E r \in summary(transmitted_packets, received_packets, rtt) :
        /\ out' = o \o r.lines
        /\ CASE r.result = "ok" ->
                  /\ closes' = closes + 1
                  /\ sock' = "closed"
                  /\ pc' = "exited"
                  /\ exit_code' = HandlerExitCode(sig)
             [] r.result = "nosamples" ->
                  /\ pc' = "exited"
                  /\ exit_code' = EXIT_FAILURE
                  /\ UNCHANGED <<closes, sock>>
             [] r.result = "trap" ->
                  /\ pc' = "killed"
                  /\ exit_code' = KilledBy(SIGFPE)
                  /\ UNCHANGED <<closes, sock>>

(***************************************************************************)
(* Initial state: the process image before main runs.  Statics are         *)
(* zero-initialised; automatic variables hold no value yet (written        *)
(* before they are read, except where an action says otherwise).           *)
(***************************************************************************)
NoHeader == [type |-> 0, code |-> 0, id |-> 0, sequence |-> 0]

\* size of an ICMP message as sent, and of the receive buffer
ICMP_PACKET_SIZE == 64

\* no datagram was delivered yet
\* no probe: TTLs and sequence numbers of probes start at 1
NoProbe == <<0, 0>>

NoDatagram == [ihl |-> 0, ttl |-> 0, len |-> 0]

\* statics and locals before main dispatches
Statics ==
    /\ exit_code = Running
    /\ handler = "default"
    /\ sock = "none"
    /\ closes = 0
    /\ out = <<>>
    /\ n = 0
    /\ ping_count = 0
    /\ transmitted_packets = 0
    /\ received_packets = 0
    /\ rtt = <<>>
    /\ ttl = 0
    /\ reply = NoHeader
    /\ elapsed = 0
    /\ events = <<>>
    /\ sent = <<>>
    /\ interrupted = FALSE
    /\ summaries = 0
    /\ max_hops = 30
    /\ max_queries = 3
    /\ hop_ttl = 0
    /\ seq = 0
    /\ reached = FALSE
    /\ router_addr = 0
    /\ prev_addr = 0
    /\ tr_line = <<>>
    /\ lines_done = 0
    /\ probes = <<>>
    /\ sock_ttl = 0
    /\ probed = {}
    /\ hop_events = <<>>
    /\ prev_hop_addr = 0
    /\ seen = {}
    /\ clean = TRUE
    /\ late = NoProbe
    /\ answered = NoProbe
    /\ sleeps = 0

\* a timeval: seconds and microseconds
Timeval(s, us) == [tv_sec |-> s, tv_usec |-> us]

\* no timestamp taken, no time computed
ClockIdle ==
    /\ begin_time = Timeval(0, 0)
    /\ end_time = Timeval(0, 0)
    /\ hop_rtt = 0

\* the codec at rest: nothing built, the static receive buffer zeroed
CodecIdle ==
    /\ wire = <<>>
    /\ buffer = [i \in 1..ICMP_PACKET_SIZE |-> 0]
    /\ dgram = NoDatagram
    /\ running_sum = <<0, 0>>
    /\ cksum = 0

Init ==
    /\ pc = "start"
    /\ cmd = "none"
    /\ arg_n = 0
    /\ arg_h = 0
    /\ arg_q = 0
    /\ opts = {}
    /\ request = NoHeader
    /\ Statics
    /\ ClockIdle
    /\ CodecIdle

(***************************************************************************)
(* main(): privilege check, option parsing, dispatch.                      *)
(***************************************************************************)
\* values of the -n option (atoi of the argument), 0 when it is absent
CountArgs == (-1)..MaxCount

\* values of the -m option (atoi of the argument)
HopsArgs == (-1)..MaxHopsArg

\* "std::int32_t hops, queries = 0;" leaves hops without a value when -m is
\* absent: what the variable may then hold
IndetHops == {0, MaxHopsArg}

\* values of the -q option (atoi of the argument), 0 when it is absent
QueriesArgs == (-1)..MaxQueriesArg

\* what main's hops holds after option parsing: atoi of the argument of -m
\* when the option is given, the indeterminate initial value otherwise
HopsGiven(given) == IF "m" \in given THEN HopsArgs ELSE IndetHops

\* what main's queries holds: atoi of the argument of -q, else its
\* initialiser 0
QueriesGiven(given) == IF "q" \in given THEN QueriesArgs ELSE {0}

\* std::abs(ping_count) converted to the std::uint16_t parameter n
PingArg(c) == Abs(c) % UINT16_MOD

Main ==
    /\ pc = "start"
    /\ \E root \in BOOLEAN, opt \in {"ping", "tr", "help", "unknown", "none"},
          target \in BOOLEAN, c \in CountArgs, given \in SUBSET {"m", "q"} :
      \E h \in HopsGiven(given), q \in QueriesGiven(given) :
        /\ IF ~root
           THEN /\ error(out, "not root")
                /\ UNCHANGED <<cmd, arg_n, arg_h, arg_q, opts, sleeps, codecVars, clockVars>>
           ELSE CASE opt \in {"help", "none"} ->
                      \* help(): std::exit(EXIT_SUCCESS)
                      /\ out' = Append(out, Line("help", 0, 0, 0))
                      /\ pc' = "exited"
                      /\ exit_code' = EXIT_SUCCESS
                      /\ UNCHANGED <<cmd, arg_n, arg_h, arg_q, opts, sleeps, codecVars, clockVars>>
                  [] opt = "unknown" ->
                      /\ error(out, "usage")
                      /\ UNCHANGED <<cmd, arg_n, arg_h, arg_q, opts, sleeps, codecVars, clockVars>>
                  [] opt \in {"ping", "tr"} /\ ~target ->
                      /\ error(out, "expected target")
                      /\ UNCHANGED <<cmd, arg_n, arg_h, arg_q, opts, sleeps, codecVars, clockVars>>
                  [] opt = "ping" /\ target ->
                      /\ cmd' = "ping"
                      /\ arg_n' = PingArg(c)
                      /\ pc' = "ping_init"
                      /\ UNCHANGED <<out, exit_code, arg_h, arg_q, opts, sleeps, codecVars, clockVars>>
                  [] opt = "tr" /\ target ->
                      /\ cmd' = "tr"
                      /\ arg_h' = Abs(h)
                      /\ arg_q' = Abs(q)
                      /\ opts' = given
                      /\ pc' = "tr_entry"
                      /\ UNCHANGED <<out, exit_code, arg_n, sleeps, codecVars, clockVars>>
    /\ UNCHANGED <<handler, sock, closes, interrupted, summaries>>
    /\ UNCHANGED pingVars
    /\ UNCHANGED trVars

\* main's "return 0" after ping() or traceroute() came back
MainReturn ==
    /\ pc = "main_return"
    /\ pc' = "exited"
    /\ exit_code' = 0
    /\ UNCHANGED <<handler, sock, closes, out, cmd, arg_n, arg_h, arg_q, opts, sleeps, codecVars, clockVars, interrupted,
                   summaries>>
    /\ UNCHANGED pingVars
    /\ UNCHANGED trVars

(***************************************************************************)
(* ping: init()                                                            *)
(***************************************************************************)
\* counters reset, socket(), setsockopt(SO_RCVTIMEO)
PingInitSocket ==
    /\ pc = "ping_init"
    /\ transmitted_packets' = 0
    /\ received_packets' = 0
    /\ ttl' = 0
    /\ \E created \in BOOLEAN, timeout_set \in BOOLEAN :
        IF ~created
        THEN /\ error(out, "raw socket creation error")
             /\ UNCHANGED sock
        ELSE /\ sock' = "open"
             /\ IF ~timeout_set
                THEN error(out, "error to set timeout")
                ELSE /\ pc' = "ping_signal"
                     /\ UNCHANGED <<out, exit_code>>
    /\ UNCHANGED <<handler, closes, cmd, arg_n, arg_h, arg_q, opts, sleeps, codecVars, clockVars, interrupted, summaries>>
    /\ UNCHANGED <<n, ping_count, rtt, reply, elapsed, events, sent, request>>
    /\ UNCHANGED trVars

\* std::signal(SIGINT, sigint_handler)
PingInitSignal ==
    /\ pc = "ping_signal"
    /\ handler' = "ping"
    /\ pc' = "ping_resolve"
    /\ UNCHANGED <<exit_code, sock, closes, out, cmd, arg_n, arg_h, arg_q, opts, sleeps, codecVars, clockVars, interrupted,
                   summaries>>
    /\ UNCHANGED pingVars
    /\ UNCHANGED trVars

(***************************************************************************)
(* ping(): address resolution and loop set-up                              *)
(***************************************************************************)
\* variant: a count of 0 is taken as it is
EffectiveCount_asgiven(c) == c

\* "if (n == 0) n = DEFAULT_PINGS_COUNT"
EffectiveCount(c) == IF c = 0 THEN DEFAULT_PINGS_COUNT ELSE c

PingResolve ==
    /\ pc = "ping_resolve"
    /\ \E resolved \in BOOLEAN :
        IF ~resolved
        THEN /\ error(out, "cannot resolve the target")
             /\ UNCHANGED <<n, ping_count>>
        ELSE /\ n' = EffectiveCount(arg_n)
             /\ ping_count' = 0
             /\ pc' = "ping_loop"
             /\ out' = Append(out, Line("pinging", 0, 0, 0))
             /\ UNCHANGED exit_code
    /\ UNCHANGED <<handler, sock, closes, cmd, arg_n, arg_h, arg_q, opts, sleeps, codecVars, clockVars, interrupted, summaries>>
    /\ UNCHANGED <<transmitted_packets, received_packets, rtt, ttl, reply,
                   elapsed, events, sent, request>>
    /\ UNCHANGED trVars

\* variant: off-by-one loop bound
LoopCond_inclusive(count, limit) == count <= limit

\* "while (ping_count < n)"
LoopCond(count, limit) == count < limit

EchoRequest_postinc(k) ==
    [type |-> ICMP_ECHO, code |-> 0, id |-> Pid, sequence |-> (k - 1) % UINT16_MOD]

\* the echo request with sequence ++ping_count
EchoRequest(k) ==
    [type |-> ICMP_ECHO, code |-> 0, id |-> Pid, sequence |-> k % UINT16_MOD]

PingLoop ==
    /\ pc = "ping_loop"
    /\ IF LoopCond(ping_count, n)
       THEN /\ ping_count' = ping_count + 1
            /\ request' = EchoRequest(ping_count + 1)
            /\ pc' = "ping_send"
       ELSE /\ pc' = "ping_summary"
            /\ UNCHANGED <<ping_count, request>>
    /\ UNCHANGED <<exit_code, handler, sock, closes, out, cmd, arg_n, arg_h,
                   arg_q, opts, sleeps, codecVars, clockVars, interrupted, summaries>>
    /\ UNCHANGED <<n, transmitted_packets, received_packets, rtt, ttl, reply,
                   elapsed, events, sent>>
    /\ UNCHANGED trVars

(***************************************************************************)
(* ping: send()                                                            *)
(***************************************************************************)
\* variant: send() without "transmitted_packets++"
PingSend_uncounted ==
    /\ pc = "ping_send"
    /\ \E ok \in BOOLEAN :
        IF ~ok
        THEN /\ error(out, "error to send ICMP packet")
             /\ UNCHANGED <<transmitted_packets, sent>>
        ELSE /\ transmitted_packets' = transmitted_packets
             /\ sent' = Append(sent, <<request.id, request.sequence, request.type>>)
             /\ pc' = "ping_recv"
             /\ UNCHANGED <<out, exit_code>>
    /\ UNCHANGED <<handler, sock, closes, cmd, arg_n, arg_h, arg_q, opts, sleeps, codecVars, clockVars, interrupted, summaries>>
    /\ UNCHANGED <<n, ping_count, received_packets, rtt, ttl, reply, elapsed,
                   events, request>>
    /\ UNCHANGED trVars

PingSend ==
    /\ pc = "ping_send"
    /\ \E ok \in BOOLEAN :
        IF ~ok
        THEN /\ error(out, "error to send ICMP packet")
             /\ UNCHANGED <<transmitted_packets, sent>>
        ELSE /\ transmitted_packets' = (transmitted_packets + 1) % UINT16_MOD
             /\ sent' = Append(sent, <<request.id, request.sequence, request.type>>)
             /\ pc' = "ping_recv"
             /\ UNCHANGED <<out, exit_code>>
    /\ UNCHANGED <<handler, sock, closes, cmd, arg_n, arg_h, arg_q, opts, sleeps, codecVars, clockVars, interrupted, summaries>>
    /\ UNCHANGED <<n, ping_count, received_packets, rtt, ttl, reply, elapsed,
                   events, request>>
    /\ UNCHANGED trVars

(***************************************************************************)
(* ping: recv() and handle_packet()                                        *)
(***************************************************************************)
TIMEOUT == -1

RECVERR == -2

\* ICMP headers the network can deliver while probe k is outstanding
Datagrams(k) ==
    {[type |-> t, code |-> 0, id |-> i, sequence |-> s] :
        t \in {ICMP_ECHOREPLY, ICMP_ECHO, ICMP_TIMXCEED},
        i \in {Pid, OtherId}, s \in {k, k - 1}}
    \cup {[type |-> ICMP_UNREACH, code |-> c, id |-> 0, sequence |-> 0] :
            c \in UnreachCodes}

\* variant: a timeout is reported and the loop goes on
RecvTimeout_continue ==
    /\ events' = Append(events, TIMEOUT)
    /\ out' = Append(out, Line("fail", 0, 0, 0))
    /\ pc' = "ping_sleep"
    /\ UNCHANGED <<received_packets, reply, ttl, elapsed, exit_code, sock,
                   closes, summaries>>

\* what recv() does when recvfrom() reported EWOULDBLOCK: the line, then
\* kill(getpid(), SIGINT).  The signal is delivered to the single thread
\* before kill() returns, so the handler runs here and never returns.
RecvTimeout ==
    /\ events' = Append(events, TIMEOUT)
    /\ sigint_handler(Append(out, Line("fail", 0, 0, 0)), SIGINT)
    /\ UNCHANGED <<received_packets, reply, ttl, elapsed>>

PingRecv ==
    /\ pc = "ping_recv"
    /\ \/ \E d \in Datagrams(ping_count), t \in IpTtlVals, e \in RttVals :
            /\ received_packets' = (received_packets + 1) % UINT16_MOD
            /\ reply' = d
            /\ ttl' = t
            /\ elapsed' = e
            /\ events' = Append(events, d.type)
            /\ pc' = "ping_switch"
            /\ UNCHANGED <<exit_code, sock, closes, out, summaries>>
       \/ RecvTimeout
       \/ /\ events' = Append(events, RECVERR)
          /\ error(out, "error to receive ICMP packet")
          /\ UNCHANGED <<received_packets, reply, ttl, elapsed, sock, closes,
                         summaries>>
    /\ UNCHANGED <<handler, cmd, arg_n, arg_h, arg_q, opts, sleeps, codecVars, clockVars, interrupted>>
    /\ UNCHANGED <<n, ping_count, transmitted_packets, rtt, sent, request>>
    /\ UNCHANGED trVars

(***************************************************************************)
(* ping(): the switch on reply.type                                        *)
(***************************************************************************)
\* variant: only the echo-reply label records a sample
IsEcho_replyonly(t) == t = ICMP_ECHOREPLY

\* the case labels that record a sample
IsEcho(t) == t \in {ICMP_ECHO, ICMP_ECHOREPLY}

\* variant: the unreachable case only prints and breaks out of the switch
UnreachAction_break(o) ==
    /\ out' = o
    /\ pc' = "ping_sleep"
    /\ UNCHANGED <<exit_code, sock, closes, summaries>>

\* what the ICMP_UNREACH case does after its printf
UnreachAction(o) == sigint_handler(o, SIGINT)

\* variant: any other type ends the run like the unreachable case
OtherAction_terminal(o) ==
    /\ sigint_handler(o, SIGINT)
    /\ UNCHANGED rtt

\* what the default case does after its printf: break, then the delay
OtherAction(o) ==
    /\ out' = o
    /\ pc' = "ping_sleep"
    /\ UNCHANGED <<rtt, exit_code, sock, closes, summaries>>

PingSwitch ==
    /\ pc = "ping_switch"
    /\ CASE IsEcho(reply.type) ->
              /\ rtt' = Append(rtt, elapsed)
              /\ out' = Append(out, Line("reply", reply.sequence, ttl, elapsed))
              /\ pc' = "ping_sleep"
              /\ UNCHANGED <<exit_code, sock, closes, summaries>>
         [] reply.type = ICMP_UNREACH ->
              /\ UNCHANGED rtt
              /\ IF reply.code < UNREACH_TABLE_SIZE
                 THEN UnreachAction(
                        Append(out, Line("unreach", reply.sequence, reply.code, 0)))
                 ELSE \* read past the end of unreach_table
                      \/ UnreachAction(
                            Append(out, Line("unreach", reply.sequence, "garbage", 0)))
                      \/ /\ pc' = "killed"
                         /\ exit_code' = KilledBy(SIGSEGV)
                         /\ UNCHANGED <<out, sock, closes, summaries>>
         [] OTHER ->
              OtherAction(
                Append(out, Line("other", reply.type, reply.code, reply.id)))
    /\ UNCHANGED <<handler, cmd, arg_n, arg_h, arg_q, opts, sleeps, codecVars, clockVars, interrupted>>
    /\ UNCHANGED <<n, ping_count, transmitted_packets, received_packets, ttl,
                   reply, elapsed, events, sent, request>>
    /\ UNCHANGED trVars

\* variant: the delay between two probes is missing
PingSleep_skipped ==
    /\ pc = "ping_sleep"
    /\ pc' = "ping_loop"
    /\ UNCHANGED <<exit_code, handler, sock, closes, out, cmd, arg_n, arg_h,
                   arg_q, opts, sleeps, codecVars, clockVars, interrupted, summaries>>
    /\ UNCHANGED pingVars
    /\ UNCHANGED trVars

\* std::this_thread::sleep_for(milliseconds(1000))
PingSleep ==
    /\ pc = "ping_sleep"
    /\ pc' = "ping_loop"
    /\ sleeps' = sleeps + 1
    /\ UNCHANGED <<exit_code, handler, sock, closes, out, cmd, arg_n, arg_h,
                   arg_q, opts, codecVars, clockVars, interrupted, summaries>>
    /\ UNCHANGED pingVars
    /\ UNCHANGED trVars

(***************************************************************************)
(* ping(): summary(); close(sockfd); return                                *)
(***************************************************************************)
PingSummary ==
    /\ pc = "ping_summary"
    /\ summaries' = summaries + 1
    /\ \E r \in summary(transmitted_packets, received_packets, rtt) :
        /\ out' = out \o r.lines
        /\ CASE r.result = "ok" ->
                  /\ pc' = "ping_close"
                  /\ UNCHANGED exit_code
             [] r.result = "nosamples" ->
                  /\ pc' = "exited"
                  /\ exit_code' = EXIT_FAILURE
             [] r.result = "trap" ->
                  /\ pc' = "killed"
                  /\ exit_code' = KilledBy(SIGFPE)
    /\ UNCHANGED <<handler, sock, closes, cmd, arg_n, arg_h, arg_q, opts, sleeps, codecVars, clockVars, interrupted>>
    /\ UNCHANGED pingVars
    /\ UNCHANGED trVars

PingClose ==
    /\ pc = "ping_close"
    /\ closes' = closes + 1
    /\ sock' = "closed"
    /\ pc' = "main_return"
    /\ UNCHANGED <<exit_code, handler, out, cmd, arg_n, arg_h, arg_q, opts, sleeps, codecVars, clockVars, interrupted, summaries>>
    /\ UNCHANGED pingVars
    /\ UNCHANGED trVars

(***************************************************************************)
(* traceroute()                                                            *)
(***************************************************************************)
MAX_HOPS == 30

MAX_QUERIES == 3

UINT8_MOD == 256

\* addresses a reply can come from; DestAddr is the resolved target
Addrs == {1, 2, 3}

DestAddr == 3

\* "sockaddr_in router_addr, prev_addr;" have no initial value: what the
\* s_addr fields may hold before the first assignment
IndetAddrs == {0, 1, DestAddr}

\* "if (h == 0) h = MAX_HOPS;"
EffectiveHops(h) == IF h = 0 THEN MAX_HOPS ELSE h

\* "if (q == 0) q = MAX_QUERIES;"
EffectiveQueries(q) == IF q = 0 THEN MAX_QUERIES ELSE q

trProc == <<exit_code, handler, sock, closes, out, cmd, arg_n, arg_h, arg_q, opts, sleeps, codecVars, clockVars,
            interrupted, summaries>>

\* traceroute(): defaults, statics, then init() up to socket()
TrEntry ==
    /\ pc = "tr_entry"
    /\ max_hops' = EffectiveHops(arg_h)
    /\ max_queries' = EffectiveQueries(arg_q)
    /\ \E resolved \in BOOLEAN, created \in BOOLEAN :
        IF ~resolved
        THEN /\ error(out, "getaddrinfo")
             /\ UNCHANGED sock
        ELSE IF ~created
        THEN /\ error(out, "raw socket creation error")
             /\ UNCHANGED sock
        ELSE /\ sock' = "open"
             /\ out' = Append(out, Line("traceroute to", EffectiveHops(arg_h), 0, 0))
             /\ pc' = "tr_signal"
             /\ UNCHANGED exit_code
    /\ UNCHANGED <<handler, closes, cmd, arg_n, arg_h, arg_q, opts, sleeps, codecVars, clockVars, interrupted,
                   summaries>>
    /\ UNCHANGED <<hop_ttl, seq, reached, router_addr, prev_addr, tr_line,
                   lines_done, probes, sock_ttl>>
    /\ UNCHANGED trHist
    /\ UNCHANGED pingVars

\* init(): std::signal(SIGINT, sigint_handler); then the locals of
\* traceroute() before the loop
TrInitSignal ==
    /\ pc = "tr_signal"
    /\ handler' = "tr"
    /\ reached' = FALSE
    /\ hop_ttl' = 1
    /\ \E r \in IndetAddrs, p \in IndetAddrs :
        /\ router_addr' = r
        /\ prev_addr' = p
    /\ pc' = "tr_loop"
    /\ UNCHANGED <<exit_code, sock, closes, out, cmd, arg_n, arg_h, arg_q, opts, sleeps, codecVars, clockVars,
                   interrupted, summaries>>
    /\ UNCHANGED <<max_hops, max_queries, seq, tr_line, lines_done, probes,
                   sock_ttl>>
    /\ UNCHANGED trHist
    /\ UNCHANGED pingVars

\* "ttl <= max_hops" of the outer for
HopCond(t, limit) == t <= limit

\* IP_TTL accepts 1..255 only
TtlAccepted(t) == t >= 1 /\ t <= 255

\* select() returned -1
SELECTERR == -3

\* the replies among the events of a hop
Replies(evs) == SelectSeq(evs, LAMBDA e : e \notin {TIMEOUT, SELECTERR})

\* source of the last reply of a hop, 0 when it got none
LastReply(evs) ==
    IF Replies(evs) = <<>> THEN 0 ELSE Replies(evs)[Len(Replies(evs))]

\* head of the outer loop: condition, setsockopt(IP_TTL), "if (reached)
\* break", the hop number
TrLoop ==
    /\ pc = "tr_loop"
    /\ IF ~HopCond(hop_ttl, max_hops)
       THEN /\ pc' = "tr_finish"
            /\ UNCHANGED <<out, exit_code, seq, tr_line, probes, sock_ttl,
                           hop_events, prev_hop_addr>>
       ELSE \E ok \in (IF TtlAccepted(hop_ttl) THEN BOOLEAN ELSE {FALSE}) :
            IF ~ok
            THEN /\ error(out, "error to set TTL")
                 /\ UNCHANGED <<seq, tr_line, probes, sock_ttl, hop_events,
                                prev_hop_addr>>
            ELSE /\ sock_ttl' = hop_ttl
                 /\ IF reached
                    THEN /\ pc' = "tr_finish"
                         /\ UNCHANGED <<out, exit_code, seq, tr_line, probes,
                                        hop_events, prev_hop_addr>>
                    ELSE /\ tr_line' = << <<"ttl", hop_ttl>> >>
                         /\ seq' = 1
                         /\ probes' = <<>>
                         /\ hop_events' = <<>>
                         /\ prev_hop_addr' = LastReply(hop_events)
                         /\ pc' = "tr_query"
                         /\ UNCHANGED <<out, exit_code>>
    /\ UNCHANGED <<handler, sock, closes, cmd, arg_n, arg_h, arg_q, opts, sleeps, codecVars, clockVars, interrupted,
                   summaries>>
    /\ UNCHANGED <<max_hops, max_queries, hop_ttl, reached, router_addr,
                   prev_addr, lines_done>>
    /\ UNCHANGED <<probed, seen, clean, late, answered>>
    /\ UNCHANGED pingVars

\* variant: the increment of the loop variable is missing
NextTtl_same(t) == t

\* "ttl++" on the std::uint8_t loop variable
NextTtl(t) == (t + 1) % UINT8_MOD

\* end of the body of the outer loop: putchar('\n'); ttl++.  evs and cl are
\* the events of the hop that ends and the clean flag after them.
EndLine(line, evs, cl) ==
    /\ tr_line' = line
    /\ lines_done' = lines_done + 1
    /\ hop_ttl' = NextTtl(hop_ttl)
    /\ pc' = "tr_loop"
    /\ seen' = IF cl THEN seen \cup {evs[i] : i \in 1..Len(evs)} ELSE {}

\* variant: the inner for stops one query early
QueryCond_exclusive(s, limit) == s < limit

\* "seq <= max_queries" of the inner for
QueryCond(s, limit) == s <= limit

TrQueryLoop ==
    /\ pc = "tr_query"
    /\ IF QueryCond(seq, max_queries)
       THEN /\ pc' = "tr_send"
            /\ UNCHANGED <<tr_line, lines_done, hop_ttl, seen>>
       ELSE EndLine(tr_line, hop_events, clean)
    /\ UNCHANGED trProc
    /\ UNCHANGED <<max_hops, max_queries, seq, reached, router_addr, prev_addr,
                   probes, sock_ttl, probed, hop_events, prev_hop_addr, clean,
                   late, answered>>
    /\ UNCHANGED pingVars

\* header update, checksum, sendto()
TrSend ==
    /\ pc = "tr_send"
    /\ \E ok \in BOOLEAN :
        IF ~ok
        THEN /\ error(out, "error to send ICMP packet")
             /\ UNCHANGED <<probes, probed>>
        ELSE /\ probes' = Append(probes, <<sock_ttl, seq>>)
             /\ probed' = probed \cup {sock_ttl}
             /\ pc' = "tr_recv"
             /\ UNCHANGED <<out, exit_code>>
    /\ UNCHANGED <<handler, sock, closes, cmd, arg_n, arg_h, arg_q, opts, sleeps, codecVars, clockVars, interrupted,
                   summaries>>
    /\ UNCHANGED <<max_hops, max_queries, hop_ttl, seq, reached, router_addr,
                   prev_addr, tr_line, lines_done, sock_ttl, hop_events,
                   prev_hop_addr, seen, clean, late, answered>>
    /\ UNCHANGED pingVars

\* the '*' printed for queries seq .. max_queries
Stars(from, to) == [i \in 1..(IF to >= from THEN to - from + 1 ELSE 0) |-> <<"*", 0>>]

\* whether a reply from a keeps the run clean: the hop answers from one
\* address, which no earlier hop used
StaysClean(a) ==
    /\ clean
    /\ a \notin seen
    /\ \A i \in 1..Len(hop_events) : hop_events[i] = a

\* variant: a timeout prints one '*' and the next query is sent
TrTimeout_continue ==
    /\ hop_events' = Append(hop_events, TIMEOUT)
    /\ clean' = FALSE
    /\ seen' = {}
    /\ tr_line' = Append(tr_line, <<"*", 0>>)
    /\ seq' = (seq + 1) % UINT16_MOD
    /\ pc' = "tr_query"
    /\ late' = <<sock_ttl, seq>>
    /\ UNCHANGED <<router_addr, prev_addr, reached, out, exit_code, lines_done,
                   hop_ttl, prev_hop_addr, answered>>

\* the else branch of "if (activity > 0)": a '*' for every query from seq
\* on, break
TrTimeout ==
    /\ hop_events' = Append(hop_events, TIMEOUT)
    /\ clean' = FALSE
    /\ EndLine(tr_line \o Stars(seq, max_queries),
               Append(hop_events, TIMEOUT), FALSE)
    /\ late' = <<sock_ttl, seq>>
    /\ UNCHANGED <<router_addr, seq, prev_addr, reached, out, exit_code,
                   prev_hop_addr, answered>>

\* select() failed: activity is -1, which takes the same else branch
TrSelectFailed ==
    /\ hop_events' = Append(hop_events, SELECTERR)
    /\ clean' = FALSE
    /\ EndLine(tr_line \o Stars(seq, max_queries),
               Append(hop_events, SELECTERR), FALSE)
    /\ late' = <<sock_ttl, seq>>
    /\ UNCHANGED <<router_addr, seq, prev_addr, reached, out, exit_code,
                   prev_hop_addr, answered>>

\* the probes a datagram returned by recvfrom() can be the reply to: the
\* one just sent, or one whose wait ended before its reply came.  The raw
\* socket hands over whichever arrives; the buffer is not looked at.
InFlight == {<<sock_ttl, seq>>} \cup (IF late = NoProbe THEN {} ELSE {late})

\* variant: the entry of the hop (print_entry) is never printed
TrRecv_anonymous ==
    /\ pc = "tr_recv"
    /\ \/ \* a reply to probe p arrived from address a
          \E a \in Addrs, named \in BOOLEAN, p \in InFlight :
            /\ answered' = p
            /\ late' = IF p = late THEN <<sock_ttl, seq>> ELSE NoProbe
            /\ router_addr' = a
            /\ hop_events' = Append(hop_events, a)
            /\ clean' = StaysClean(a)
            /\ IF seq = 1 /\ a = prev_addr
               THEN /\ reached' = TRUE
                    /\ EndLine(tr_line, Append(hop_events, a), StaysClean(a))
                    /\ UNCHANGED <<seq, prev_addr, out, exit_code, prev_hop_addr>>
               ELSE IF seq = 1 /\ ~named
               THEN /\ error(out, "get hostname error")
                    /\ seen' = IF StaysClean(a) THEN seen ELSE {}
                    /\ UNCHANGED <<seq, prev_addr, reached, tr_line, lines_done,
                                   hop_ttl, prev_hop_addr>>
               ELSE /\ tr_line' = tr_line
                            \o <<>>
                            \o << <<"rtt", 0>> >>
                    /\ reached' = (reached \/ a = DestAddr)
                    /\ prev_addr' = a
                    /\ seq' = (seq + 1) % UINT16_MOD
                    /\ pc' = "tr_query"
                    /\ seen' = IF StaysClean(a) THEN seen ELSE {}
                    /\ UNCHANGED <<lines_done, hop_ttl, out, exit_code,
                                   prev_hop_addr>>
       \/ \* recvfrom() failed
          /\ error(out, "error to receive reply")
          /\ UNCHANGED <<router_addr, seq, prev_addr, reached, tr_line,
                         lines_done, hop_ttl, hop_events, prev_hop_addr, seen,
                         clean, late, answered>>
       \/ \* nothing to read before the timeout
          TrTimeout
       \/ TrSelectFailed
    /\ UNCHANGED <<handler, sock, closes, cmd, arg_n, arg_h, arg_q, opts, sleeps, codecVars, clockVars, interrupted,
                   summaries>>
    /\ UNCHANGED <<max_hops, max_queries, probes, sock_ttl, probed>>
    /\ UNCHANGED pingVars

\* select(), recvfrom() and the handling of the reply
TrRecv ==
    /\ pc = "tr_recv"
    /\ \/ \* a reply to probe p arrived from address a
          \E a \in Addrs, named \in BOOLEAN, p \in InFlight :
            /\ answered' = p
            /\ late' = IF p = late THEN <<sock_ttl, seq>> ELSE NoProbe
            /\ router_addr' = a
            /\ hop_events' = Append(hop_events, a)
            /\ clean' = StaysClean(a)
            /\ IF seq = 1 /\ a = prev_addr
               THEN /\ reached' = TRUE
                    /\ EndLine(tr_line, Append(hop_events, a), StaysClean(a))
                    /\ UNCHANGED <<seq, prev_addr, out, exit_code, prev_hop_addr>>
               ELSE IF seq = 1 /\ ~named
               THEN /\ error(out, "get hostname error")
                    /\ seen' = IF StaysClean(a) THEN seen ELSE {}
                    /\ UNCHANGED <<seq, prev_addr, reached, tr_line, lines_done,
                                   hop_ttl, prev_hop_addr>>
               ELSE /\ tr_line' = tr_line
                            \o (IF seq = 1 THEN << <<"host", a>> >> ELSE <<>>)
                            \o << <<"rtt", 0>> >>
                    /\ reached' = (reached \/ a = DestAddr)
                    /\ prev_addr' = a
                    /\ seq' = (seq + 1) % UINT16_MOD
                    /\ pc' = "tr_query"
                    /\ seen' = IF StaysClean(a) THEN seen ELSE {}
                    /\ UNCHANGED <<lines_done, hop_ttl, out, exit_code,
                                   prev_hop_addr>>
       \/ \* recvfrom() failed
          /\ error(out, "error to receive reply")
          /\ UNCHANGED <<router_addr, seq, prev_addr, reached, tr_line,
                         lines_done, hop_ttl, hop_events, prev_hop_addr, seen,
                         clean, late, answered>>
       \/ \* nothing to read before the timeout
          TrTimeout
       \/ TrSelectFailed
    /\ UNCHANGED <<handler, sock, closes, cmd, arg_n, arg_h, arg_q, opts, sleeps, codecVars, clockVars, interrupted,
                   summaries>>
    /\ UNCHANGED <<max_hops, max_queries, probes, sock_ttl, probed>>
    /\ UNCHANGED pingVars

\* freeaddrinfo(result); close(sockfd);
TrFinish ==
    /\ pc = "tr_finish"
    /\ closes' = closes + 1
    /\ sock' = "closed"
    /\ pc' = "main_return"
    /\ UNCHANGED <<exit_code, handler, out, cmd, arg_n, arg_h, arg_q, opts, sleeps, codecVars, clockVars,
                   interrupted, summaries>>
    /\ UNCHANGED trVars
    /\ UNCHANGED pingVars

(***************************************************************************)
(* Delivery of an external SIGINT (Ctrl-C), at any point of the run.       *)
(***************************************************************************)
Alive == pc \notin {"exited", "killed"}

\* traceroute's sigint_handler(sig): close(sockfd); std::exit(sig)
tr_sigint_handler(sig) ==
    /\ closes' = closes + 1
    /\ sock' = IF sock = "none" THEN "none" ELSE "closed"
    /\ pc' = "exited"
    /\ exit_code' = HandlerExitCode(sig)
    /\ UNCHANGED <<out, summaries>>

Interrupt ==
    /\ Alive
    /\ interrupted' = TRUE
    /\ CASE handler = "default" ->
              /\ pc' = "killed"
              /\ exit_code' = KilledBy(SIGINT)
              /\ UNCHANGED <<sock, closes, out, summaries>>
         [] handler = "ping" -> sigint_handler(out, SIGINT)
         [] handler = "tr" -> tr_sigint_handler(SIGINT)
    /\ UNCHANGED <<handler, cmd, arg_n, arg_h, arg_q, opts, sleeps, codecVars, clockVars>>
    /\ UNCHANGED pingVars
    /\ UNCHANGED trVars

Next ==
    \/ Main
    \/ MainReturn
    \/ PingInitSocket
    \/ PingInitSignal
    \/ PingResolve
    \/ PingLoop
    \/ PingSend
    \/ PingRecv
    \/ PingSwitch
    \/ PingSleep
    \/ PingSummary
    \/ PingClose
    \/ TrEntry
    \/ TrInitSignal
    \/ TrLoop
    \/ TrQueryLoop
    \/ TrSend
    \/ TrRecv
    \/ TrFinish
    \/ Interrupt

Spec == Init /\ [][Next]_vars

(***************************************************************************)
(* ntool::ping() called a second time in the same process.  main calls it  *)
(* once; the function has external linkage and keeps its statistics in     *)
(* translation-unit statics, so a caller that invokes it again enters      *)
(* init() with whatever the first call left in them.                       *)
(***************************************************************************)
\* probe counts passed by the repeating caller
RepeatCounts == {1}

\* the state in which the first call ping(target, c) is entered
InitRepeat ==
    /\ pc = "ping_init"
    /\ cmd = "ping"
    /\ arg_n \in RepeatCounts
    /\ arg_h = 0
    /\ arg_q = 0
    /\ opts = {}
    /\ request = NoHeader
    /\ Statics
    /\ ClockIdle
    /\ CodecIdle

\* the first call returned (summary(), close()): the caller calls ping()
\* again instead of returning
PingAgain ==
    /\ pc = "main_return"
    /\ cmd = "ping"
    /\ CountLines(out, "pinging") = 1
    /\ \E c \in RepeatCounts : arg_n' = c
    /\ pc' = "ping_init"
    /\ UNCHANGED <<exit_code, handler, sock, closes, out, cmd, arg_h, arg_q, opts, sleeps, codecVars, clockVars,
                   interrupted, summaries>>
    /\ UNCHANGED pingVars
    /\ UNCHANGED trVars

NextRepeat ==
    \/ PingAgain
    \/ MainReturn
    \/ PingInitSocket
    \/ PingInitSignal
    \/ PingResolve
    \/ PingLoop
    \/ PingSend
    \/ PingRecv
    \/ PingSwitch
    \/ PingSleep
    \/ PingSummary
    \/ PingClose
    \/ Interrupt

SpecRepeat == InitRepeat /\ [][NextRepeat]_vars

(***************************************************************************)
(* traceroute() entered with a hop limit at or above the range of the      *)
(* std::uint8_t loop variable, as "ntool --tr -m 255 -q 1 host" does.      *)
(***************************************************************************)
\* the largest value of the loop variable ttl
UINT8_MAX == UINT8_MOD - 1

\* values of -m at and above it
BigHopsArgs == {UINT8_MAX, UINT8_MAX + 1}

\* the state main leaves when it calls traceroute(target, h, 1)
InitHops ==
    /\ pc = "tr_entry"
    /\ cmd = "tr"
    /\ arg_n = 0
    /\ arg_h \in BigHopsArgs
    /\ arg_q = 1
    /\ opts = {"m", "q"}
    /\ request = NoHeader
    /\ Statics
    /\ ClockIdle
    /\ CodecIdle

NextHops ==
    \/ TrEntry
    \/ TrInitSignal
    \/ TrLoop
    \/ TrQueryLoop
    \/ TrSend
    \/ TrRecv
    \/ TrFinish
    \/ MainReturn
    \/ Interrupt

SpecHops == InitHops /\ [][NextHops]_vars

(***************************************************************************)
(* The packet codec: set_packet() / ICMP::set() build a message with its   *)
(* checksum, recv() stores a datagram in its static buffer and             *)
(* handle_packet() decodes the ICMP header behind the IP header.  Bytes    *)
(* are numbers 0..255; multi-byte fields are laid out as memcpy of the     *)
(* struct lays them out on the little-endian hosts the program is built    *)
(* for.  A 32-bit sum is kept as <<high 16 bits, low 16 bits>>.            *)
(***************************************************************************)
BYTE_MOD == 256

ICMP_HEADER_SIZE == 8

ICMP_PAYLOAD_SIZE == 56

Lo(x) == x % BYTE_MOD

Hi(x) == (x \div BYTE_MOD) % BYTE_MOD

\* the default payload "!!\"#$%&'()*+,-./0123456789:;<=>?@A...UV" and its NUL
payload ==
    [i \in 1..ICMP_PAYLOAD_SIZE |->
        IF i = 1 THEN 33 ELSE IF i = ICMP_PAYLOAD_SIZE THEN 0 ELSE 31 + i]

\* the bytes of an icmphdr with checksum 0: type, code, checksum, id, sequence
HeaderBytes(h) ==
    <<h.type, h.code, 0, 0, Lo(h.id), Hi(h.id), Lo(h.sequence), Hi(h.sequence)>>

\* the std::uint16_t words "*buf++" reads from a buffer
Words(buf) == [i \in 1..(Len(buf) \div 2) |-> buf[2 * i - 1] + BYTE_MOD * buf[2 * i]]

\* variant: the odd last byte is left out of the sum
WordSum_even(buf) ==
    LET total == SeqSum(Words(buf))
    IN  <<total \div UINT16_MOD, total % UINT16_MOD>>

\* the loop of calculate_checksum and its odd last byte
WordSum(buf) ==
    LET total == SeqSum(Words(buf))
                   + (IF Len(buf) % 2 = 1 THEN buf[Len(buf)] ELSE 0)
    IN  <<total \div UINT16_MOD, total % UINT16_MOD>>

\* variant: the carry of the first addition is not added back
Fold_once(s) ==
    LET s1 == s[1] + s[2]
    IN  (UINT16_MOD - 1) - (s1 % UINT16_MOD)

\* sum = (sum >> 16) + (sum & 0xFFFF); sum += (sum >> 16); result = ~sum
Fold(s) ==
    LET s1 == s[1] + s[2]
        s2 == s1 + (s1 \div UINT16_MOD)
    IN  (UINT16_MOD - 1) - (s2 % UINT16_MOD)

calculate_checksum(buf) == Fold(WordSum(buf))

\* variant: the two bytes of the checksum are stored the other way round
StoreChecksum_swapped(buf, ck) == [buf EXCEPT ![3] = Hi(ck), ![4] = Lo(ck)]

\* the checksum written into bytes 2 and 3 of the message
StoreChecksum(buf, ck) == [buf EXCEPT ![3] = Lo(ck), ![4] = Hi(ck)]

\* set_packet(): header with checksum 0, payload, checksum over all 64 bytes
set_packet(h) ==
    LET packet == HeaderBytes(h) \o payload
    IN  StoreChecksum(packet, calculate_checksum(packet))

\* ICMP::set(type, code, id, sequence): the 8-byte header with its checksum
icmp_set(h) ==
    LET hdr == HeaderBytes(h)
    IN  StoreChecksum(hdr, calculate_checksum(hdr))

\* an IPv4 header of ihl 32-bit words: version and ihl in byte 0, the TTL in
\* byte 8, the protocol (ICMP) in byte 9
IpHeader(ihl, t) ==
    [i \in 1..(ihl * 4) |->
        IF i = 1 THEN 4 * 16 + ihl ELSE IF i = 9 THEN t ELSE IF i = 10 THEN 1 ELSE 0]

\* recvfrom(sockfd, packet, ICMP_PACKET_SIZE, ...): at most 64 bytes of the
\* datagram overwrite the head of the static buffer
Received(buf, datagram) ==
    [i \in 1..ICMP_PACKET_SIZE |-> IF i <= Len(datagram) THEN datagram[i] ELSE buf[i]]

\* value of a byte read past the end of the static buffer
IndetBytes == {0, 255}

\* handle_packet(): the icmphdr at packet + ihl * 4; g stands for the bytes
\* that lie beyond the 64-byte buffer
DecodedHeader(buf, g) ==
    LET off == (buf[1] % 16) * 4
        b(j) == IF off + j <= ICMP_PACKET_SIZE THEN buf[off + j] ELSE g
    IN  [type |-> b(1), code |-> b(2), id |-> b(5) + BYTE_MOD * b(6),
         sequence |-> b(7) + BYTE_MOD * b(8)]

\* headers handed to the encoder
CodecHeaders ==
    [type : {ICMP_ECHOREPLY, ICMP_ECHO, 255}, code : {0, 255},
     id : {0, Pid, 256, 65535}, sequence : {0, 1, 258, 65535}]

\* IP header lengths (in words) of the datagrams delivered: no options,
\* and the two longest option areas
IhlVals == {5, 14, 15}

\* TTLs found in the IP header of a delivered datagram
DatagramTtls == {64, 255}

\* lengths of the datagram delivered after an IP header of ihl words: empty,
\* one byte short of the ICMP header, complete
DatagramLens(ihl) == {0, ihl * 4 + ICMP_HEADER_SIZE - 1, ihl * 4 + ICMP_PACKET_SIZE}

InitCodec ==
    /\ pc = "codec_set"
    /\ cmd = "ping"
    /\ arg_n = 0
    /\ arg_h = 0
    /\ arg_q = 0
    /\ opts = {}
    /\ request \in CodecHeaders
    /\ Statics
    /\ ClockIdle
    /\ CodecIdle

codecFrame == <<exit_code, handler, sock, closes, out, cmd, arg_n, arg_h, arg_q,
                opts, sleeps, interrupted, summaries, n, ping_count,
                transmitted_packets, received_packets, rtt, elapsed, events,
                sent, request, clockVars>>

\* send(): memset, set_packet(packet, request)
CodecSetPacket ==
    /\ pc = "codec_set"
    /\ wire' = set_packet(request)
    /\ pc' = "codec_wire"
    /\ UNCHANGED <<buffer, dgram, running_sum, cksum, reply, ttl>>
    /\ UNCHANGED codecFrame
    /\ UNCHANGED trVars

\* ICMP::set(type, code, id, sequence)
CodecIcmpSet ==
    /\ pc = "codec_set"
    /\ wire' = icmp_set(request)
    /\ pc' = "codec_header"
    /\ UNCHANGED <<buffer, dgram, running_sum, cksum, reply, ttl>>
    /\ UNCHANGED codecFrame
    /\ UNCHANGED trVars

\* recv(): the message comes back behind an IP header, whole or cut short
CodecRecv ==
    /\ pc = "codec_wire"
    /\ \E ihl \in IhlVals, t \in DatagramTtls :
         \E len \in DatagramLens(ihl) :
            /\ dgram' = [ihl |-> ihl, ttl |-> t, len |-> len]
            /\ buffer' = Received(buffer, SubSeq(IpHeader(ihl, t) \o wire, 1, len))
    /\ pc' = "codec_recvd"
    /\ UNCHANGED <<wire, running_sum, cksum, reply, ttl>>
    /\ UNCHANGED codecFrame
    /\ UNCHANGED trVars

\* recv(): handle_packet(reply, packet), whatever the length received
CodecHandlePacket ==
    /\ pc = "codec_recvd"
    /\ \E g \in IndetBytes : reply' = DecodedHeader(buffer, g)
    /\ ttl' = buffer[9]
    /\ pc' = "codec_done"
    /\ UNCHANGED <<wire, buffer, dgram, running_sum, cksum>>
    /\ UNCHANGED codecFrame
    /\ UNCHANGED trVars

NextCodec ==
    \/ CodecSetPacket
    \/ CodecIcmpSet
    \/ CodecRecv
    \/ CodecHandlePacket

SpecCodec == InitCodec /\ [][NextCodec]_vars

(***************************************************************************)
(* The fold of calculate_checksum applied to 32-bit running sums.          *)
(***************************************************************************)
\* values of each 16-bit half of the running sum
HalfVals == {0, 1, 2, 255, 256, 32767, 32768, 65534, 65535}

FoldSums == HalfVals \X HalfVals

InitFold ==
    /\ pc = "fold"
    /\ cmd = "ping"
    /\ arg_n = 0
    /\ arg_h = 0
    /\ arg_q = 0
    /\ opts = {}
    /\ request = NoHeader
    /\ Statics
    /\ ClockIdle
    /\ wire = <<>>
    /\ buffer = [i \in 1..ICMP_PACKET_SIZE |-> 0]
    /\ dgram = NoDatagram
    /\ running_sum \in FoldSums
    /\ cksum = 0

\* the three statements after the loop of calculate_checksum
ChecksumFold ==
    /\ pc = "fold"
    /\ cksum' = Fold(running_sum)
    /\ pc' = "folded"
    /\ UNCHANGED <<wire, buffer, dgram, running_sum, reply, ttl>>
    /\ UNCHANGED codecFrame
    /\ UNCHANGED trVars

NextFold == ChecksumFold

SpecFold == InitFold /\ [][NextFold]_vars

(***************************************************************************)
(* calculate_checksum(buffer, size) applied to buffers of every length     *)
(* from 0 to MaxBufLen.                                                    *)
(***************************************************************************)
\* bytes the buffers are filled with
SumBytes == {0, 1, 255}

SumBuffers == UNION {[1..k -> SumBytes] : k \in 0..MaxBufLen}

InitSum ==
    /\ pc = "sum"
    /\ cmd = "ping"
    /\ arg_n = 0
    /\ arg_h = 0
    /\ arg_q = 0
    /\ opts = {}
    /\ request = NoHeader
    /\ Statics
    /\ ClockIdle
    /\ wire \in SumBuffers
    /\ buffer = [i \in 1..ICMP_PACKET_SIZE |-> 0]
    /\ dgram = NoDatagram
    /\ running_sum = <<0, 0>>
    /\ cksum = 0

\* one call calculate_checksum(wire, Len(wire))
ChecksumBuffer ==
    /\ pc = "sum"
    /\ running_sum' = WordSum(wire)
    /\ cksum' = calculate_checksum(wire)
    /\ pc' = "summed"
    /\ UNCHANGED <<wire, buffer, dgram, reply, ttl>>
    /\ UNCHANGED codecFrame
    /\ UNCHANGED trVars

NextSum == ChecksumBuffer

SpecSum == InitSum /\ [][NextSum]_vars

(***************************************************************************)
(* traceroute's rtt(begin, end), applied to the timestamps gettimeofday()  *)
(* gave before the wait and after the reply.                               *)
(***************************************************************************)
MSEC_PER_SEC == 1000

USEC_PER_MSEC == 1000

USEC_PER_SEC == 1000000

\* a / b of C++ on signed operands: the quotient is truncated toward zero
TruncDiv(a, b) == IF a >= 0 THEN a \div b ELSE 0 - ((0 - a) \div b)

\* (sec * 1000) + (microsec / 1000)
tr_rtt(b, e) ==
    LET sec == e.tv_sec - b.tv_sec
        microsec == e.tv_usec - b.tv_usec
    IN  (sec * MSEC_PER_SEC) + TruncDiv(microsec, USEC_PER_MSEC)

\* seconds and microseconds of the timestamps
ClockSecs == 0..MaxSec

ClockUsecs == {0, 1, 999, 1000, 500000, 999999}

Timevals == {Timeval(s, us) : s \in ClockSecs, us \in ClockUsecs}

\* e is not earlier than b
NotBefore(b, e) ==
    e.tv_sec > b.tv_sec \/ (e.tv_sec = b.tv_sec /\ e.tv_usec >= b.tv_usec)

InitRtt ==
    /\ pc = "rtt"
    /\ cmd = "tr"
    /\ arg_n = 0
    /\ arg_h = 0
    /\ arg_q = 0
    /\ opts = {}
    /\ request = NoHeader
    /\ Statics
    /\ CodecIdle
    /\ begin_time \in Timevals
    /\ end_time \in {t \in Timevals : NotBefore(begin_time, t)}
    /\ hop_rtt = 0

\* one call rtt(begin_time, end_time)
RttCall ==
    /\ pc = "rtt"
    /\ hop_rtt' = tr_rtt(begin_time, end_time)
    /\ pc' = "rtt_done"
    /\ UNCHANGED <<begin_time, end_time, reply, ttl>>
    /\ UNCHANGED codecVars
    /\ UNCHANGED <<exit_code, handler, sock, closes, out, cmd, arg_n, arg_h,
                   arg_q, opts, sleeps, interrupted, summaries, n, ping_count,
                   transmitted_packets, received_packets, rtt, elapsed, events,
                   sent, request>>
    /\ UNCHANGED trVars

NextRtt == RttCall

SpecRtt == InitRtt /\ [][NextRtt]_vars

(***************************************************************************)
(* Properties.                                                             *)
(***************************************************************************)
Terminated == pc \in {"exited", "killed"}

\* a system call failed or the command line was rejected (utils::error other
\* than the no-samples error of summary)
FatalError ==
    \E i \in 1..Len(out) : out[i][1] = "error" /\ out[i][2] # "nosamples"

NoSamplesError ==
    \E i \in 1..Len(out) : out[i][1] = "error" /\ out[i][2] = "nosamples"

PrintedStats(tx, rx, loss) ==
    \E i \in 1..Len(out) :
        out[i][1] = "stats" /\ out[i][2] = tx /\ out[i][3] = rx /\ out[i][4] = loss

AllEvents(t) == \A i \in 1..Len(events) : events[i] = t

LastEvent == IF events = <<>> THEN 0 - 9 ELSE events[Len(events)]

\* a ping run in which no SIGINT came from outside and no system call failed
QuietPingEnd ==
    /\ cmd = "ping"
    /\ Terminated
    /\ ~interrupted
    /\ ~FatalError
    /\ events # <<>>

\* C1: for every requested count n >= 1, a ping run on a channel that answers
\* every probe with an echo-reply ends with transmitted = n, received = n,
\* 0% packet loss printed and exactly n RTT samples.
C1_AllAnswered ==
    (QuietPingEnd /\ arg_n >= 1 /\ AllEvents(ICMP_ECHOREPLY))
        => /\ transmitted_packets = arg_n
           /\ received_packets = arg_n
           /\ Len(rtt) = arg_n
           /\ PrintedStats(arg_n, arg_n, 0)

C1_Witness ==
    /\ QuietPingEnd /\ arg_n >= 2 /\ AllEvents(ICMP_ECHOREPLY)
    /\ PrintedStats(arg_n, arg_n, 0)

TimeoutStep ==
    /\ Len(events') = Len(events) + 1
    /\ events'[Len(events')] = TIMEOUT

C4_UnreachEndsRun ==
    \A k \in 1..Len(events) :
        events[k] = ICMP_UNREACH
            => /\ k = Len(events)
               /\ \A j \in 1..Len(sent) : sent[j][2] <= k
               /\ pc = "ping_switch" \/ Terminated
               /\ (Terminated /\ ~interrupted /\ reply.code < UNREACH_TABLE_SIZE)
                      => HasLine(out, "unreach")

C4_Witness ==
    /\ cmd = "ping" /\ Terminated /\ ~interrupted
    /\ LastEvent = ICMP_UNREACH
    /\ Len(events) >= 2
    /\ transmitted_packets < n
    /\ HasLine(out, "unreach")

\* C5 as stated: every ping run that ends by count exhaustion, by an
\* interrupt or by a destination-unreachable reply has printed the summary
\* statistics, wherever in the run (after the handler was installed) the
\* terminating event occurred.
C5_SummaryAlwaysPrinted ==
    (cmd = "ping" /\ Terminated /\ handler = "ping" /\ ~FatalError)
        => HasLine(out, "stats")

\* C6 as stated: when the process has ended and a raw socket had been opened,
\* close(sockfd) was called exactly once; it is never called twice.
C6_ClosedExactlyOnce ==
    /\ (Terminated /\ sock # "none") => closes = 1
    /\ closes <= 1

\* C7 as stated: a run that ends without an error (count exhaustion, end of
\* the scan, destination-unreachable, interrupt) ends with exit code 0.
C7_NormalExitIsZero ==
    (pc = "exited" /\ handler # "default" /\ ~HasLine(out, "error"))
        => exit_code = 0

\* ceil(100 - (rx/tx)*100) on the exact ratio
ExactLoss(rx, tx) == 100 - ((100 * rx) \div tx)

\* C8 as stated: every printed statistics line with transmitted >= 1 shows
\* the loss ceil(100 - (received/transmitted)*100) of the exact ratio.
C8_LossIsExact ==
    \A i \in 1..Len(out) :
        (out[i][1] = "stats" /\ out[i][2] >= 1)
            => out[i][4] = ExactLoss(out[i][3], out[i][2])

\* C9 as stated: whenever summary() is entered, at least one probe has been
\* transmitted.
C9_SummaryHasTransmitted ==
    [][summaries' = summaries + 1 => transmitted_packets >= 1]_vars

\* C10: whenever summary() is entered with no RTT sample and transmitted >= 1,
\* it ends in the no-samples error: the error is the last thing printed, no
\* min/avg/max/mdev line is printed and the process exits with EXIT_FAILURE.
C10_NoSamplesIsFailure ==
    [][(summaries' = summaries + 1 /\ rtt = <<>> /\ transmitted_packets >= 1)
        => /\ pc' = "exited"
           /\ exit_code' = EXIT_FAILURE
           /\ out'[Len(out')][1] = "error"
           /\ out'[Len(out')][2] = "nosamples"
           /\ ~HasLine(out', "rttline")]_vars

C10_Witness ==
    /\ cmd = "ping" /\ pc = "exited" /\ exit_code = EXIT_FAILURE
    /\ summaries = 1 /\ rtt = <<>> /\ transmitted_packets >= 1
    /\ NoSamplesError
    /\ HasLine(out, "stats")

(***************************************************************************)
(* C11. A round-trip sample is recorded only on receipt of a reply that    *)
(* matches the outstanding probe: same identifier and same sequence number *)
(* as the probe just sent.  Stated of every step that lengthens rtt; the   *)
(* switch of ping() looks at the type of the datagram only, so a datagram  *)
(* of another process or of an earlier probe yields a sample too.          *)
(***************************************************************************)
MatchesProbe(r, q) == r.id = q.id /\ r.sequence = q.sequence

C11_SampleOnlyOnMatch ==
    [][Len(rtt') > Len(rtt) => MatchesProbe(reply, request)]_vars

(***************************************************************************)
(* C12. The k-th probe sent in a run carries sequence number k (from 1)    *)
(* and the identifier of the process, and is an ICMP echo-request.         *)
(***************************************************************************)
C12_ProbeNumbering ==
    \A k \in 1..Len(sent) : sent[k] = <<Pid, k, ICMP_ECHO>>

C12_Witness ==
    /\ Len(sent) = DEFAULT_PINGS_COUNT
    /\ sent[DEFAULT_PINGS_COUNT] = <<Pid, DEFAULT_PINGS_COUNT, ICMP_ECHO>>

(***************************************************************************)
(* C13. A received echo-request is handled exactly like an echo-reply: the *)
(* sample is appended, the per-probe line is printed, and the loop goes on *)
(* to the delay and from there to the loop head; no probe is sent in       *)
(* between.  Steps in which a SIGINT from outside cuts in are left out.    *)
(***************************************************************************)
HandledAsReply ==
    /\ rtt' = Append(rtt, elapsed)
    /\ out' = Append(out, Line("reply", reply.sequence, ttl, elapsed))
    /\ pc' = "ping_sleep"
    /\ sent' = sent
    /\ exit_code' = Running

C13_EchoRequestAsReply ==
    [][/\ (pc = "ping_switch" /\ ~interrupted'
            /\ reply.type \in {ICMP_ECHO, ICMP_ECHOREPLY}) => HandledAsReply
       /\ (pc = "ping_sleep" /\ ~interrupted')
              => (pc' = "ping_loop" /\ sent' = sent)]_vars

C13_Witness ==
    /\ pc = "ping_sleep"
    /\ reply.type = ICMP_ECHO
    /\ Len(rtt) = 2
    /\ events = <<ICMP_ECHOREPLY, ICMP_ECHO>>
    /\ HasLine(out, "reply")

(***************************************************************************)
(* C14. A message whose type is neither echo-reply, echo-request nor       *)
(* destination-unreachable records no sample and does not end the run: the *)
(* loop goes to the delay, and the loop head then sends the next probe     *)
(* while probes remain.                                                    *)
(***************************************************************************)
OtherType(t) == t \notin {ICMP_ECHOREPLY, ICMP_ECHO, ICMP_UNREACH}

C14_OtherTypeContinues ==
    [][/\ (pc = "ping_switch" /\ ~interrupted' /\ OtherType(reply.type))
              => (rtt' = rtt /\ pc' = "ping_sleep" /\ exit_code' = Running)
       /\ (pc = "ping_loop" /\ ~interrupted' /\ ping_count < n)
              => (pc' = "ping_send" /\ request'.sequence = ping_count + 1)]_vars

C14_Witness ==
    /\ pc = "ping_recv"
    /\ Len(events) = 1
    /\ OtherType(events[1])
    /\ Len(sent) = 2
    /\ rtt = <<>>

(***************************************************************************)
(* C15. Ping statistics are not shared across invocations: when a call of  *)
(* ping() reaches its loop for the first time (init() has run, no probe of *)
(* this call was sent yet), transmitted and received are 0 and the sample  *)
(* sequence is empty.  Checked under SpecRepeat, where ping() is called    *)
(* twice: init() resets the two counters but nothing ever clears rtt.      *)
(***************************************************************************)
CallStart == pc = "ping_loop" /\ ping_count = 0

C15_FreshStatistics ==
    CallStart => (transmitted_packets = 0 /\ received_packets = 0 /\ rtt = <<>>)

(***************************************************************************)
(* Traceroute runs.                                                        *)
(***************************************************************************)
\* the scan of a traceroute run is over and the run was not cut short by a
\* failed system call or a SIGINT
TrScanOver ==
    /\ cmd = "tr"
    /\ ~interrupted
    /\ ~FatalError
    /\ pc \in {"tr_finish", "main_return", "exited"}

\* the hop number printed at the head of the current line
LineTtl == IF tr_line = <<>> THEN 0 ELSE tr_line[1][2]

HasToken(line, kind) == \E i \in 1..Len(line) : line[i][1] = kind

(***************************************************************************)
(* C16. Against a channel that answers every probe, each TTL from one      *)
(* address, no address at two TTLs, and the destination at TTL d, the scan *)
(* probes exactly the TTLs 1..d and prints d hop lines: it does not end    *)
(* before the destination answered (or max_hops lines were printed), no    *)
(* probe goes out above d, and the line of every visited TTL shows the     *)
(* hop.  Violated when the uninitialised prev_addr happens to hold the     *)
(* address of the first hop.                                               *)
(***************************************************************************)
C16_DistinctHopsScan ==
    (cmd = "tr" /\ clean /\ ~interrupted /\ ~FatalError) =>
        /\ TrScanOver =>
              /\ LastReply(hop_events) = DestAddr \/ lines_done = max_hops
              /\ probed = 1..lines_done
              /\ HasToken(tr_line, "host")
        /\ (hop_events # <<>> /\ hop_events[1] = DestAddr) =>
              /\ probed = 1..LineTtl
              /\ lines_done \in {LineTtl - 1, LineTtl}

(***************************************************************************)
(* C17. When the first reply at TTL t comes from the source of the last    *)
(* reply of the hop before, the scan stops: reached is set, the query loop *)
(* of TTL t is left after its first probe, no probe is sent above t, and   *)
(* no line is printed for TTL t.  The code has printed the hop number      *)
(* before the reply arrived and still ends that line.                      *)
(***************************************************************************)
DuplicateHop ==
    /\ hop_events # <<>>
    /\ prev_hop_addr # 0
    /\ hop_events[1] = prev_hop_addr

DuplicateStops ==
    /\ reached
    /\ probes = << <<LineTtl, 1>> >>
    /\ pc \notin {"tr_query", "tr_send", "tr_recv"}
    /\ \A t \in probed : t <= LineTtl

C17_DuplicateHopStops ==
    DuplicateHop => (DuplicateStops /\ lines_done < LineTtl)

(***************************************************************************)
(* C18 as stated: when query k of a hop gets no reply, one placeholder is  *)
(* printed for it and the next query of the same TTL follows: while k is   *)
(* below max_queries the hop goes on with query k + 1.                     *)
(***************************************************************************)
TrTimeoutStep == pc = "tr_recv" /\ hop_events' = Append(hop_events, TIMEOUT)

TimedOut(evs) == \E i \in 1..Len(evs) : evs[i] = TIMEOUT

DestAnswered(evs) == \E k \in 1..Len(evs) : evs[k] = DestAddr

InQueryLoop == pc \in {"tr_query", "tr_send", "tr_recv"}

C19_DestinationEndsScan ==
    (cmd = "tr" /\ DestAnswered(hop_events) /\ ~FatalError /\ ~interrupted) =>
        /\ reached
        /\ ~InQueryLoop => Len(probes) = max_queries
        /\ \A t \in probed : t <= LineTtl

(***************************************************************************)
(* C20. For every positive max_hops, 255 and above included, the TTL scan  *)
(* runs through increasing TTLs only: the TTL counter never wraps around,  *)
(* probes are sent only at TTLs in 1..max_hops, and a hop starts only at a *)
(* TTL no probe was sent with before.  Checked under SpecHops, where       *)
(* max_hops is 255 or 256: the std::uint8_t counter passes from 255 to 0.  *)
(***************************************************************************)
C20_TtlNeverWraps ==
    [][cmd = "tr" =>
          /\ hop_ttl' >= hop_ttl
          /\ \A t \in probed' : t >= 1 /\ t <= max_hops'
          /\ (probes = <<>> /\ probes' # <<>>) => sock_ttl \notin probed]_vars

(***************************************************************************)
(* C21. When the command line has neither -m nor -q, the scan uses         *)
(* max_hops = 30 and max_queries = 3.  main's hops has no initialiser, so  *)
(* without -m traceroute() receives whatever the variable holds.           *)
(***************************************************************************)
C21_DefaultLimits ==
    (cmd = "tr" /\ opts = {} /\ pc \notin {"start", "tr_entry"}) =>
        (max_hops = MAX_HOPS /\ max_queries = MAX_QUERIES)

(***************************************************************************)
(* C22. Every probe sent while the scan is at hop t (the hop number        *)
(* printed at the head of the current line) goes out with the socket's IP  *)
(* TTL equal to t and the probes of a hop carry the sequence numbers       *)
(* 1, 2, ... from 1 again at each hop; each hop that starts has the number *)
(* of the hop before plus 1, the first being 1.                            *)
(***************************************************************************)
HopStarts == pc = "tr_loop" /\ pc' = "tr_query"

C22_ProbeTtlAndOrder ==
    [][cmd = "tr" =>
          /\ \A i \in 1..Len(probes') : probes'[i] = <<LineTtl', i>>
          /\ HopStarts => (LineTtl' = LineTtl + 1 /\ LineTtl' = lines_done + 1)]_vars

C22_Witness ==
    /\ pc = "tr_recv"
    /\ lines_done = 1
    /\ probes = << <<2, 1>>, <<2, 2>> >>

(***************************************************************************)
(* C23. A message built with its checksum verifies: the checksum computed  *)
(* over the whole buffer, stored checksum included, is 0.  Stated of the   *)
(* 64-byte packet of set_packet() and of the 8-byte header of ICMP::set(), *)
(* for every header the encoder is given.                                  *)
(***************************************************************************)
C23_ChecksumVerifies ==
    pc \in {"codec_wire", "codec_header"} => calculate_checksum(wire) = 0

C23_Witness ==
    /\ pc = "codec_wire"
    /\ Len(wire) = ICMP_PACKET_SIZE
    /\ request = [type |-> ICMP_ECHO, code |-> 0, id |-> Pid, sequence |-> 65535]
    /\ wire[3] + wire[4] > 0

(***************************************************************************)
(* C24. Round trip: a message encoded by set_packet() and decoded by       *)
(* handle_packet() from a complete datagram, in which it follows an IP     *)
(* header of ihl * 4 bytes, gives back type, code, identifier and sequence *)
(* and the TTL of the IP header.  With ihl = 15 the ICMP header ends past  *)
(* the 64-byte receive buffer.                                             *)
(***************************************************************************)
CompleteDatagram == dgram.len = dgram.ihl * 4 + ICMP_PACKET_SIZE

C24_RoundTrip ==
    (pc = "codec_done" /\ CompleteDatagram) =>
        (reply = request /\ ttl = dgram.ttl)

(***************************************************************************)
(* C25. A datagram with fewer bytes behind its IP header than the ICMP     *)
(* header has is not decoded into a message: no header is produced from    *)
(* it.  handle_packet() is called whatever recvfrom() returned.            *)
(***************************************************************************)
ShortDatagram == dgram.len < dgram.ihl * 4 + ICMP_HEADER_SIZE

C25_ShortDatagramRejected == ~(pc = "codec_done" /\ ShortDatagram)

(***************************************************************************)
(* C26. For every 32-bit running sum, the fold of calculate_checksum (add  *)
(* the high half to the low half, add the carry once more, truncate,       *)
(* complement) equals adding the high 16 bits into the low 16 bits until   *)
(* the value fits in 16 bits, then complementing.                          *)
(***************************************************************************)
RECURSIVE FoldUntilFits(_)
FoldUntilFits(v) ==
    IF v < UINT16_MOD THEN v
    ELSE FoldUntilFits((v \div UINT16_MOD) + (v % UINT16_MOD))

RepeatedFold(s) == (UINT16_MOD - 1) - FoldUntilFits(s[1] + s[2])

C26_FoldEquivalence ==
    pc = "folded" => cksum = RepeatedFold(running_sum)

C26_Witness ==
    /\ pc = "folded"
    /\ running_sum = <<65535, 65535>>
    /\ cksum = 0

(***************************************************************************)
(* C27. In every ping run the table of destination-unreachable             *)
(* descriptions is indexed only with a code in 0..15.  Stated of the step  *)
(* of the switch that handles a destination-unreachable reply; the code    *)
(* field is a byte taken from the datagram and is not compared with the    *)
(* size of the table.                                                      *)
(***************************************************************************)
UnreachCaseStep ==
    /\ pc = "ping_switch"
    /\ reply.type = ICMP_UNREACH
    /\ interrupted' = interrupted

C27_UnreachIndexInTable ==
    [][UnreachCaseStep => reply.code \in 0..(UNREACH_TABLE_SIZE - 1)]_vars

(***************************************************************************)
(* C28. Finalization happens once: whenever the interrupt arrives (before, *)
(* during or after the summary and close of a normal completion), a ping   *)
(* run that has installed its handler and met no system-call failure ends  *)
(* by exit with the summary printed exactly once and the socket closed     *)
(* exactly once after it.                                                  *)
(***************************************************************************)
C28_FinalizeOnce ==
    (cmd = "ping" /\ handler = "ping" /\ Terminated /\ ~FatalError)
        => (pc = "exited" /\ summaries = 1 /\ closes = 1)

(***************************************************************************)
(* C29. Probing is strictly sequential.  At most one probe is outstanding; *)
(* when ping sends a probe every earlier probe has had its receive attempt *)
(* and its one-second sleep; when traceroute sends a probe of a hop every  *)
(* earlier probe of the hop has had its wait for a reply or a timeout.     *)
(***************************************************************************)
Outstanding == Len(sent) - Len(events)

HopOutstanding == Len(probes) - Len(hop_events)

C29_StrictlySequential ==
    [][/\ Len(sent') > Len(sent) =>
            (Len(events) = Len(sent) /\ sleeps = Len(sent))
       /\ Len(probes') > Len(probes) => Len(hop_events) = Len(probes)
       /\ Outstanding' \in {0, 1}
       /\ HopOutstanding' \in {0, 1}]_vars

C29_Witness ==
    /\ cmd = "ping"
    /\ Len(sent) = 2
    /\ Len(events) = 2
    /\ sleeps = 2

(***************************************************************************)
(* C30. Every fatal condition ends the process with a non-zero exit status *)
(* and no probe is sent after it.  Fatal conditions are the failures       *)
(* reported through utils::error (no root privilege, target not resolved,  *)
(* socket not created, send or receive failed) and a receive step that     *)
(* failed otherwise than by a timeout: recvfrom() in ping, select() in     *)
(* traceroute.  traceroute() tests select() with "activity > 0" only and   *)
(* takes -1 for a timeout.                                                 *)
(***************************************************************************)
LastHopEvent == IF hop_events = <<>> THEN 0 ELSE hop_events[Len(hop_events)]

FatalCondition ==
    \/ FatalError
    \/ LastEvent = RECVERR
    \/ LastHopEvent = SELECTERR

C30_FatalExitsNonZero ==
    [][/\ FatalCondition' =>
            (pc' = "exited" /\ exit_code' \notin {EXIT_SUCCESS, Running})
       /\ FatalCondition => UNCHANGED <<sent, probes, probed>>]_vars

(***************************************************************************)
(* C31. The statistics line is computed in summary() over exactly the      *)
(* round-trip samples recorded during the run: the samples are those of    *)
(* the reply lines printed, min and max are the smallest and the largest   *)
(* of them, mean is their arithmetic mean and lies between min and max,    *)
(* mdev is the mean of |sample - mean| and lies between 0 and max - min.   *)
(* Fractions <<p, q>> are compared by cross-multiplication.                *)
(***************************************************************************)
\* the samples of the reply lines printed so far
RECURSIVE Recorded(_)
Recorded(o) ==
    IF o = <<>> THEN <<>>
    ELSE (IF Head(o)[1] = "reply" THEN <<Head(o)[4]>> ELSE <<>>)
            \o Recorded(Tail(o))

Smallest(m, s) ==
    (\E i \in 1..Len(s) : s[i] = m) /\ (\A i \in 1..Len(s) : m <= s[i])

Largest(m, s) ==
    (\E i \in 1..Len(s) : s[i] = m) /\ (\A i \in 1..Len(s) : s[i] <= m)

\* f = <<p, q>> is the arithmetic mean of s
ArithmeticMean(f, s) == f[2] > 0 /\ f[1] * Len(s) = f[2] * SeqSum(s)

\* g = <<d, e>> is the mean of |s[i] - p/q|
MeanAbsDeviation(g, f, s) ==
    /\ g[2] > 0
    /\ g[1] * Len(s) * f[2]
         = g[2] * SeqSum([i \in 1..Len(s) |-> Abs(f[2] * s[i] - f[1])])

StatsOf(l, s) ==
    /\ l[1] = "rttline"
    /\ Smallest(l[2], s)
    /\ Largest(l[3], s)
    /\ ArithmeticMean(l[4][1], s)
    /\ l[2] * l[4][1][2] <= l[4][1][1]
    /\ l[4][1][1] <= l[3] * l[4][1][2]
    /\ MeanAbsDeviation(l[4][2], l[4][1], s)
    /\ 0 <= l[4][2][1]
    /\ l[4][2][1] <= (l[3] - l[2]) * l[4][2][2]

SummaryStep == summaries' = summaries + 1

C32_ChecksumAnyLength ==
    pc = "summed" =>
        /\ cksum \in 0..(UINT16_MOD - 1)
        /\ wire = <<>> => cksum = UINT16_MOD - 1
        /\ Len(wire) % 2 = 1 => cksum = calculate_checksum(Append(wire, 0))

C32_Witness ==
    /\ pc = "summed"
    /\ wire = <<1, 255, 255>>
    /\ running_sum = <<1, 0>>
    /\ cksum = UINT16_MOD - 2

(***************************************************************************)
(* C33. In every state of a ping run with count n (4 when 0 was asked      *)
(* for): samples recorded <= received_packets <= transmitted_packets <= n, *)
(* and transmitted_packets is the sequence number of the last probe that   *)
(* was sent, 0 while none was.                                             *)
(***************************************************************************)
LastSequence == IF sent = <<>> THEN 0 ELSE sent[Len(sent)][2]

C33_CounterOrder ==
    cmd = "ping" =>
        /\ Len(Recorded(out)) <= received_packets
        /\ Len(rtt) <= received_packets
        /\ received_packets <= transmitted_packets
        /\ transmitted_packets <= n
        /\ transmitted_packets = LastSequence

C33_Witness ==
    /\ cmd = "ping"
    /\ n = 2
    /\ transmitted_packets = 2
    /\ received_packets = 2
    /\ Len(rtt) = 1
    /\ LastSequence = 2

(***************************************************************************)
(* C34. A hop address or RTT printed on the line of TTL t comes from a     *)
(* reply to the probe sent at TTL t with the sequence number of the query  *)
(* that waits: the reply to an earlier probe, whose wait had timed out, is *)
(* never attributed to the current query.  traceroute() reads whatever     *)
(* datagram arrives and prints its source; the reply is not inspected.     *)
(***************************************************************************)
\* the tokens a step adds to the line of the hop
NewTokens == SubSeq(tr_line', Len(tr_line) + 1, Len(tr_line'))

ReplyPrinted ==
    /\ pc = "tr_recv"
    /\ Len(tr_line') > Len(tr_line)
    /\ HasToken(NewTokens, "rtt")

C34_ReplyBelongsToQuery ==
    [][ReplyPrinted => answered' = <<LineTtl, seq>>]_vars

(***************************************************************************)
(* C35. The 8 bytes handle_packet() reads as the ICMP header, at offset    *)
(* ihl * 4 of the receive buffer, lie inside the 64-byte buffer and inside *)
(* the bytes recvfrom() stored, whatever the IP header length field and    *)
(* the received length.  recv() passes the buffer on without its length.   *)
(***************************************************************************)
\* offset one past the last byte handle_packet() reads
HeaderEnd == (buffer[1] % 16) * 4 + ICMP_HEADER_SIZE

\* number of bytes recvfrom() stored
BytesStored == IF dgram.len < ICMP_PACKET_SIZE THEN dgram.len ELSE ICMP_PACKET_SIZE

C35_HeaderReadInBounds ==
    pc = "codec_done" =>
        (HeaderEnd <= ICMP_PACKET_SIZE /\ HeaderEnd <= BytesStored)

(***************************************************************************)
(* C36. Every hop line traceroute completes, other than a line cut short   *)
(* by the duplicate-hop check, has exactly max_queries entries, each an    *)
(* RTT or a '*', behind the hop number and at most one host; at most       *)
(* max_queries probes are sent in a hop and no TTL gets a second hop.      *)
(***************************************************************************)
Entries(line) == SelectSeq(line, LAMBDA t : t[1] \in {"rtt", "*"})

LineEnds == lines_done' = lines_done + 1

\* the line is ended by the reply of the first query: the duplicate check
DuplicateCut ==
    /\ pc = "tr_recv"
    /\ seq = 1
    /\ hop_events'[Len(hop_events')] \in Addrs

WellFormedLine(line) ==
    /\ line[1][1] = "ttl"
    /\ \A i \in 2..Len(line) : line[i][1] \in {"host", "rtt", "*"}
    /\ Cardinality({i \in 1..Len(line) : line[i][1] = "host"}) <= 1

TokenAt(line, kind) == {i \in 1..Len(line) : line[i][1] = kind}

FirstQueryUnanswered(evs) == evs # <<>> /\ evs[1] \in {TIMEOUT, SELECTERR}

Requested == IF arg_n = 0 THEN DEFAULT_PINGS_COUNT ELSE arg_n

LoopLeft == cmd = "ping" /\ pc = "ping_summary"

C38_DefaultCount ==
    /\ cmd = "ping" => (ping_count <= Requested /\ Len(sent) <= ping_count)
    /\ LoopLeft =>
          /\ ping_count = Requested
          /\ Len(sent) = Requested
          /\ Len(events) = Requested
          /\ \A i \in 1..Len(sent) : sent[i][2] = i

C38_Witness ==
    /\ LoopLeft
    /\ arg_n = 0
    /\ Len(sent) = 4
    /\ sent[4][2] = 4
    /\ AllEvents(ICMP_ECHOREPLY)

(***************************************************************************)
(* C39. For timestamps with end >= begin, rtt(begin, end) is the elapsed   *)
(* time in whole milliseconds, floor(elapsed microseconds / 1000), and is  *)
(* not negative.  rtt() divides the difference of the tv_usec fields,      *)
(* which is negative when the second changed in between, and C++ truncates *)
(* that quotient toward zero.                                              *)
(***************************************************************************)
ElapsedUsec(b, e) ==
    (e.tv_sec - b.tv_sec) * USEC_PER_SEC + (e.tv_usec - b.tv_usec)

C39_RttIsFloorOfElapsed ==
    (pc = "rtt_done" /\ NotBefore(begin_time, end_time)) =>
        /\ hop_rtt >= 0
        /\ hop_rtt = ElapsedUsec(begin_time, end_time) \div USEC_PER_MSEC

====
